---------------------------- MODULE Spec2Model ----------------------------
(***************************************************************************)
(* The exercise evaluation engine of AiTrainer.py: class Exercise (the     *)
(* angle -> percentage mapping, the form checks, the four-stage            *)
(* repetition state machine and its feedback messages).                    *)
(*                                                                         *)
(* Units.  Time is counted in tenths of a second, so that every duration   *)
(* of the source is an integer: 0.5 s is 5, 0.7 s is 7, 1.0 s is 10.       *)
(* Angles are whole degrees.  A percentage, a bar height and a pace        *)
(* progress are exact fractions [num |-> n, den |-> d] with d > 0, so     *)
(* that no threshold comparison is blurred by rounding.                    *)
(***************************************************************************)
EXTENDS Integers, Sequences, FiniteSets, TLC

VARIABLES
    self,      \* the Exercise object (exercise_handler in main), or NoObject
    now,       \* the wall clock, time.time()
    lmList,    \* the landmark list handed to the last update call
    ret,       \* what the last operation returned
    raised,    \* the exception that left the last operation, or "none"
    args,      \* the arguments of the operation under test
    entry,     \* history: self.stage when the last update call began
    lap,       \* history: how far the stages went through down, going_up,
               \*          hold, going_down since the last counted repetition
    scen,      \* history: the observer of the one-repetition scenario
    lapse      \* history: a call of the repetition under way, or of the one
               \* that just ended, began in a moving stage with the form not good

vars == <<self, now, lmList, ret, raised, args, entry, lap, scen, lapse>>

-----------------------------------------------------------------------------
(* Bounds of the model *)

\* The clock stops the model at MaxTime (6.0 s).
MaxTime == 60

\* Frames arrive TickStep or 2 * TickStep tenths of a second apart.
TickStep == 5

\* _calculate_percentage is tried on the angles from AngleSlack degrees below
\* the angle range to AngleSlack degrees above it.
AngleSlack == 5

-----------------------------------------------------------------------------
(* Program constants *)

\* per <= 5: the repetition is back at the bottom
PerBottom == 5

\* per >= 10: the repetition starts
PerStart == 10

\* per >= 90: the top of the repetition
PerTop == 90

\* a final message is kept for 1.0 s in stage "down"
FinalWindow == 10

\* a warning is kept for 0.5 s in the moving stages
WarningWindow == 5

\* check_body_visibility's default threshold, 0.7, in hundredths
VisThreshold == 70

\* the bar runs from 650 (0 %) to 100 (100 %)
BarBottom == 650

BarTop == 100

NoObject == [stage |-> "none"]

NoFrame == [n |-> 0]

NoRet == [kind |-> "none"]

NoArgs == [kind |-> "none"]

-----------------------------------------------------------------------------
(* Exact fractions *)

Frac(n, d) == [num |-> n, den |-> d]

\* a <= k, a >= k, a < k for a fraction a with a positive denominator and an integer k
FracLE(a, k) == a.num <= k * a.den

FracGE(a, k) == a.num >= k * a.den

FracLT(a, k) == a.num < k * a.den

Abs(x) == IF x < 0 THEN -x ELSE x

Min(a, b) == IF a < b THEN a ELSE b

-----------------------------------------------------------------------------
(* np.interp on two points: linear between (xp0, fp0) and (xp1, fp1) for    *)
(* xp0 < xp1, and the end values outside [xp0, xp1].  x is a fraction.      *)

\* interp without the end values: the line is extended beyond xp0 and xp1
interp_Extrapolating(x, xp0, xp1, fp0, fp1) ==
    Frac(fp0 * (xp1 - xp0) * x.den + (x.num - xp0 * x.den) * (fp1 - fp0), (xp1 - xp0) * x.den)

interp(x, xp0, xp1, fp0, fp1) ==
    IF x.num <= xp0 * x.den THEN Frac(fp0 * (xp1 - xp0) * x.den, (xp1 - xp0) * x.den)
    ELSE IF x.num >= xp1 * x.den THEN Frac(fp1 * (xp1 - xp0) * x.den, (xp1 - xp0) * x.den)
    ELSE Frac(fp0 * (xp1 - xp0) * x.den + (x.num - xp0 * x.den) * (fp1 - fp0),
              (xp1 - xp0) * x.den)

\* _calculate_percentage with the branch of line 55 taken for "normal"
_calculate_percentage_Swapped(angle, angle_range, progress_type) ==
    IF progress_type = "normal"
    THEN interp(angle, angle_range[1], angle_range[2], 0, 100)
    ELSE interp(angle, angle_range[1], angle_range[2], 100, 0)

\* Exercise._calculate_percentage
_calculate_percentage(angle, angle_range, progress_type) ==
    IF progress_type = "inverse"
    THEN interp(angle, angle_range[1], angle_range[2], 0, 100)
    ELSE interp(angle, angle_range[1], angle_range[2], 100, 0)

-----------------------------------------------------------------------------
(* EXERCISE_CONFIG.  A check's "condition" lambda is named by a string and  *)
(* evaluated by AngleCondition / PositionalCondition below.  Durations are  *)
(* in tenths of a second.                                                   *)

AngleCheck(lms, t, cond, fb) ==
    [check_type |-> "angle", landmarks |-> lms, threshold |-> t, condition |-> cond, feedback |-> fb]

PositionalCheck(lms, cond, fb) ==
    [check_type |-> "positional", landmarks |-> lms, condition |-> cond, feedback |-> fb]

VisibilityCheck(lms, fb) ==
    [check_type |-> "visibility", landmarks |-> lms, feedback |-> fb]

Timing(c, h, e, t) == [concentric |-> c, hold |-> h, eccentric |-> e, tolerance |-> t]

\* timing=None
NoTiming == [none |-> TRUE]

ExerciseNames == {"bicep_curl", "squat", "wall_push_up", "glute_bridge", "seated_leg_raise"}

EXERCISE_CONFIG ==
    [name \in ExerciseNames |->
       CASE name = "bicep_curl" ->
              [landmarks |-> <<12, 14, 16>>, angle_range |-> <<40, 160>>, progress_type |-> "normal",
               timing |-> Timing(20, 10, 30, 7),
               form_checks |-> <<AngleCheck(<<24, 12, 14>>, 30, "a > t", "PIN YOUR ELBOW"),
                                 VisibilityCheck(<<12, 14, 16, 24>>, "KEEP RIGHT UPPER BODY VISIBLE")>>,
               visibility_check |-> [landmarks |-> <<12, 14, 16, 24>>, feedback |-> "SHOW RIGHT UPPER BODY"]]
         [] name = "squat" ->
              [landmarks |-> <<24, 26, 28>>, angle_range |-> <<90, 175>>, progress_type |-> "normal",
               timing |-> Timing(20, 10, 10, 10),
               form_checks |-> <<AngleCheck(<<12, 24, 26>>, 80, "a < t", "KEEP CHEST UP"),
                                 AngleCheck(<<24, 26, 28>>, 80, "a < t", "SQUAT TOO DEEP"),
                                 VisibilityCheck(<<12, 24, 26, 28>>, "KEEP WHOLE RIGHT BODY VISIBLE")>>,
               visibility_check |-> [landmarks |-> <<12, 24, 26, 28, 32>>, feedback |-> "SHOW RIGHT FULL BODY"]]
         [] name = "wall_push_up" ->
              [landmarks |-> <<12, 14, 16>>, angle_range |-> <<90, 160>>, progress_type |-> "normal",
               timing |-> Timing(40, 10, 20, 7),
               form_checks |-> <<AngleCheck(<<12, 24, 28>>, 160, "a < t", "KEEP BACK STRAIGHT"),
                                 PositionalCheck(<<12, 24>>, "lean", "LEAN FORWARD MORE"),
                                 PositionalCheck(<<14, 12>>, "above by 30", "TUCK YOUR ELBOWS"),
                                 PositionalCheck(<<16, 12>>, "above", "LOWER YOUR HANDS"),
                                 VisibilityCheck(<<12, 14, 16, 24>>, "KEEP RIGHT UPPER BODY VISIBLE")>>,
               visibility_check |-> [landmarks |-> <<12, 14, 16, 24>>, feedback |-> "SHOW RIGHT UPPER BODY"]]
         [] name = "glute_bridge" ->
              [landmarks |-> <<12, 24, 26>>, angle_range |-> <<130, 170>>, progress_type |-> "inverse",
               timing |-> Timing(20, 20, 30, 7),
               form_checks |-> <<AngleCheck(<<12, 24, 26>>, 180, "a > t", "AVOID ARCHING BACK"),
                                 AngleCheck(<<24, 26, 28>>, 110, "a > t", "KEEP FEET CLOSER"),
                                 PositionalCheck(<<12, 28>>, "apart by 40", "KEEP SHOULDERS & FEET ON GROUND")>>,
               visibility_check |-> [landmarks |-> <<12, 24, 26, 28>>, feedback |-> "SHOW FULL RIGHT SIDE OF BODY"]]
         [] name = "seated_leg_raise" ->
              [landmarks |-> <<24, 26, 28>>, angle_range |-> <<90, 155>>, progress_type |-> "inverse",
               timing |-> Timing(30, 20, 40, 7),
               form_checks |-> <<AngleCheck(<<12, 24, 26>>, 110, "a > t", "SIT UP STRAIGHT"),
                                 PositionalCheck(<<26, 24>>, "above", "KEEP THIGH ON CHAIR")>>,
               visibility_check |-> [landmarks |-> <<12, 24, 26, 28>>, feedback |-> "SHOW FULL RIGHT SIDE OF BODY"]]]

-----------------------------------------------------------------------------
(* Exercise.__init__: the object built from a configuration at time t.      *)
(* Nothing is validated: every argument is stored as given.                 *)

Exercise(c, t) ==
    LET timing == IF c.timing = NoTiming THEN Timing(30, 10, 30, 5) ELSE c.timing IN
    [landmarks |-> c.landmarks,
     angle_range |-> c.angle_range,
     type |-> c.progress_type,
     form_checks |-> c.form_checks,
     concentric_time |-> timing.concentric,
     hold_time |-> timing.hold,
     eccentric_time |-> timing.eccentric,
     time_tolerance |-> timing.tolerance,
     total_rep_time |-> timing.concentric + timing.hold + timing.eccentric,
     good_reps |-> 0,
     bad_reps |-> 0,
     stage |-> "down",
     stage_start_time |-> t,
     feedback_set_time |-> t,
     form_feedback |-> "START",
     speed_feedback |-> "START",
     rep_timing_is_good |-> TRUE]

-----------------------------------------------------------------------------
(* A landmark list.  lm.n is its length (entries 0 .. n-1), lm.width the    *)
(* length of each entry ([id, x, y] or [id, x, y, visibility]), lm.pt[j]    *)
(* the coordinates and lm.vis[j] the visibility (in hundredths) of joint j, *)
(* and lm.ang[t] the angle the pose detector measures on the joint triple   *)
(* t.  Only the joints below lm.n exist.                                    *)

Joints == {12, 14, 16, 24, 26, 28, 32}

\* poseDetector.findAngle: the angle at p2 between the rays to p1 and p3
findAngle(lm, p1, p2, p3) == lm.ang[<<p1, p2, p3>>]

\* lmList[p] raises IndexError for p >= len(lmList)
InList(lm, p) == p < lm.n

\* Exercise._calculate_angle: "IndexError" when a joint is missing
_calculate_angle(lm, t) ==
    IF InList(lm, t[1]) /\ InList(lm, t[2]) /\ InList(lm, t[3])
    THEN [raised |-> "none", angle |-> findAngle(lm, t[1], t[2], t[3])]
    ELSE [raised |-> "IndexError", angle |-> 0]

\* check_body_visibility that also rejects a score equal to the threshold
check_body_visibility_StrictThreshold(full_lmList, required_ids, threshold) ==
    IF full_lmList.n = 0 THEN FALSE
    ELSE \A i \in 1..Len(required_ids) :
            ~ (\/ required_ids[i] >= full_lmList.n
               \/ full_lmList.width < 4
               \/ full_lmList.vis[required_ids[i]] <= threshold)

\* check_body_visibility
check_body_visibility(full_lmList, required_ids, threshold) ==
    IF full_lmList.n = 0 THEN FALSE
    ELSE \A i \in 1..Len(required_ids) :
            ~ (\/ required_ids[i] >= full_lmList.n
               \/ full_lmList.width < 4
               \/ full_lmList.vis[required_ids[i]] < threshold)

\* the "condition" lambdas of the angle checks
AngleCondition(cond, a, t) ==
    IF cond = "a > t" THEN a > t ELSE a < t

\* the "lean" lambda divides by abs(shoulder[2] - hip[2])
PositionalRaises(cond, a, b) == cond = "lean" /\ a.y = b.y

\* the "condition" lambdas of the positional checks; entry[1] is x, entry[2] is y
PositionalCondition(cond, a, b) ==
    CASE cond = "lean" -> 100 * Abs(a.x - b.x) < 15 * Abs(a.y - b.y)
      [] cond = "above by 30" -> a.y < b.y - 30
      [] cond = "above" -> a.y < b.y
      [] cond = "apart by 40" -> Abs(a.y - b.y) > 40

FormFails(fb) == [ok |-> FALSE, feedback |-> fb, raised |-> "none"]

FormRaises(e) == [ok |-> TRUE, feedback |-> "GOOD", raised |-> e]

\* FormLoop without the break statements: the last failing check decides
RECURSIVE FormLoop_NoBreak(_, _, _)
FormLoop_NoBreak(checks, i, lm) ==
    IF i > Len(checks) THEN [ok |-> TRUE, feedback |-> "GOOD", raised |-> "none"]
    ELSE LET check == checks[i]
             rest == FormLoop_NoBreak(checks, i + 1, lm)
             fails ==
               CASE check.check_type = "visibility" ->
                      ~ check_body_visibility(lm, check.landmarks, VisThreshold)
                 [] check.check_type = "positional" ->
                      /\ InList(lm, check.landmarks[1]) /\ InList(lm, check.landmarks[2])
                      /\ ~ PositionalRaises(check.condition, lm.pt[check.landmarks[1]],
                                            lm.pt[check.landmarks[2]])
                      /\ PositionalCondition(check.condition, lm.pt[check.landmarks[1]],
                                             lm.pt[check.landmarks[2]])
                 [] check.check_type = "angle" ->
                      /\ _calculate_angle(lm, check.landmarks).raised = "none"
                      /\ AngleCondition(check.condition, _calculate_angle(lm, check.landmarks).angle,
                                        check.threshold)
         IN  IF rest.ok /\ fails THEN FormFails(check.feedback) ELSE rest

\* The loop over self.form_checks, from check i on: the first failing check
\* sets the feedback and breaks; an exception leaves the loop with
\* form_feedback still "GOOD".
RECURSIVE FormLoop(_, _, _)
FormLoop(checks, i, lm) ==
    IF i > Len(checks) THEN [ok |-> TRUE, feedback |-> "GOOD", raised |-> "none"]
    ELSE LET check == checks[i] IN
         CASE check.check_type = "visibility" ->
                IF ~ check_body_visibility(lm, check.landmarks, VisThreshold)
                THEN FormFails(check.feedback)
                ELSE FormLoop(checks, i + 1, lm)
           [] check.check_type = "positional" ->
                IF InList(lm, check.landmarks[1]) /\ InList(lm, check.landmarks[2])
                THEN IF PositionalRaises(check.condition, lm.pt[check.landmarks[1]], lm.pt[check.landmarks[2]])
                     THEN FormRaises("ZeroDivisionError")
                     ELSE IF PositionalCondition(check.condition, lm.pt[check.landmarks[1]],
                                                 lm.pt[check.landmarks[2]])
                          THEN FormFails(check.feedback)
                          ELSE FormLoop(checks, i + 1, lm)
                ELSE FormLoop(checks, i + 1, lm)
           [] check.check_type = "angle" ->
                LET a == _calculate_angle(lm, check.landmarks) IN
                IF a.raised # "none" THEN FormRaises(a.raised)
                ELSE IF AngleCondition(check.condition, a.angle, check.threshold)
                     THEN FormFails(check.feedback)
                     ELSE FormLoop(checks, i + 1, lm)

\* lines 70-75: the primary angle, one triple or the mean of two
PrimaryAngle(landmarks, lm) ==
    IF Len(landmarks) = 2
    THEN LET a1 == _calculate_angle(lm, landmarks[1])
             a2 == _calculate_angle(lm, landmarks[2])
         IN  IF a1.raised # "none" THEN [raised |-> a1.raised, angle |-> Frac(0, 1)]
             ELSE IF a2.raised # "none" THEN [raised |-> a2.raised, angle |-> Frac(0, 1)]
             ELSE [raised |-> "none", angle |-> Frac(a1.angle + a2.angle, 2)]
    ELSE LET a == _calculate_angle(lm, landmarks)
         IN  [raised |-> a.raised, angle |-> Frac(a.angle, 1)]

-----------------------------------------------------------------------------
(* Exercise.update, lines 119-214: the repetition state machine.  s is the  *)
(* object, per the percentage, t the current time, elapsed the time since   *)
(* stage_start_time as read at line 120.  Each stage handler yields the new *)
(* object and the numerator of pace_progress over total_rep_time.           *)

inter_stage_warnings == {"TOO FAST", "TOO SLOW", "HOLD AT TOP"}

final_rep_messages == {"GOOD REP!", "BAD TIMING", "REP RESET"} \cup inter_stage_warnings

\* GlobalReset without the form test of line 123
GlobalReset_ProgressOnly(s, per, current_form_is_good, t) ==
    IF FracLE(per, PerBottom) /\ s.stage \in {"going_up", "hold"}
    THEN [s EXCEPT !.stage = "down", !.speed_feedback = "REP RESET", !.feedback_set_time = t]
    ELSE s

\* GlobalReset without the percentage test of line 123
GlobalReset_FormOnly(s, per, current_form_is_good, t) ==
    LET is_moving == s.stage \in {"going_up", "hold", "going_down"} IN
    IF ~ current_form_is_good /\ is_moving
    THEN [s EXCEPT !.stage = "down", !.speed_feedback = "REP RESET", !.feedback_set_time = t]
    ELSE s

\* lines 122-126
GlobalReset(s, per, current_form_is_good, t) ==
    LET is_moving == s.stage \in {"going_up", "hold", "going_down"} IN
    IF \/ (~ current_form_is_good /\ is_moving)
       \/ (FracLE(per, PerBottom) /\ s.stage \in {"going_up", "hold"})
    THEN [s EXCEPT !.stage = "down", !.speed_feedback = "REP RESET", !.feedback_set_time = t]
    ELSE s

\* StageMessage that never keeps a warning
StageMessage_AlwaysDefault(s, t, default) == [s EXCEPT !.speed_feedback = default]

\* lines 145-149, 164-168, 183-187: the stage's default message, unless a
\* warning was set less than 0.5 s ago
StageMessage(s, t, default) ==
    IF s.speed_feedback \in inter_stage_warnings /\ t - s.feedback_set_time < WarningWindow
    THEN s
    ELSE [s EXCEPT !.speed_feedback = default]

\* StageDown that keeps a final message however old it is
StageDown_NeverExpires(s, per, t) ==
    LET s1 == IF s.speed_feedback \in final_rep_messages
              THEN s
              ELSE [s EXCEPT !.speed_feedback = "LIFT UP"]
        s2 == IF FracGE(per, PerStart)
              THEN [s1 EXCEPT !.stage = "going_up", !.stage_start_time = t, !.rep_timing_is_good = TRUE]
              ELSE s1
    IN  [self |-> s2, pace |-> 0]

\* lines 128-142
StageDown(s, per, t) ==
    LET s1 == IF s.speed_feedback \in final_rep_messages /\ t - s.feedback_set_time < FinalWindow
              THEN s
              ELSE [s EXCEPT !.speed_feedback = "LIFT UP"]
        s2 == IF FracGE(per, PerStart)
              THEN [s1 EXCEPT !.stage = "going_up", !.stage_start_time = t, !.rep_timing_is_good = TRUE]
              ELSE s1
    IN  [self |-> s2, pace |-> 0]

\* StageGoingUp with the tolerance test of line 153 made strict (>= for >)
StageGoingUp_StrictTolerance(s, per, t, elapsed) ==
    LET s1 == StageMessage(s, t, "GO")
        s2 == IF FracGE(per, PerTop)
              THEN LET s3 == IF Abs(elapsed - s.concentric_time) >= s.time_tolerance
                             THEN [s1 EXCEPT !.speed_feedback =
                                                 IF elapsed < s.concentric_time THEN "TOO FAST" ELSE "TOO SLOW",
                                             !.feedback_set_time = t,
                                             !.rep_timing_is_good = FALSE]
                             ELSE s1
                   IN  [s3 EXCEPT !.stage = "hold", !.stage_start_time = t]
              ELSE IF elapsed > s.concentric_time + s.time_tolerance
                   THEN [s1 EXCEPT !.speed_feedback = "TOO SLOW", !.rep_timing_is_good = FALSE]
                   ELSE s1
    IN  [self |-> s2, pace |-> Min(elapsed, s.concentric_time)]

\* StageGoingUp with line 153 testing only for a crossing that came too early
StageGoingUp_NoSlowCheck(s, per, t, elapsed) ==
    LET s1 == StageMessage(s, t, "GO")
        s2 == IF FracGE(per, PerTop)
              THEN LET s3 == IF s.concentric_time - elapsed > s.time_tolerance
                             THEN [s1 EXCEPT !.speed_feedback = "TOO FAST",
                                             !.feedback_set_time = t,
                                             !.rep_timing_is_good = FALSE]
                             ELSE s1
                   IN  [s3 EXCEPT !.stage = "hold", !.stage_start_time = t]
              ELSE IF elapsed > s.concentric_time + s.time_tolerance
                   THEN [s1 EXCEPT !.speed_feedback = "TOO SLOW", !.rep_timing_is_good = FALSE]
                   ELSE s1
    IN  [self |-> s2, pace |-> Min(elapsed, s.concentric_time)]

\* StageGoingUp that enters "hold" without line 158
StageGoingUp_KeepsTimer(s, per, t, elapsed) ==
    LET s1 == StageMessage(s, t, "GO")
        s2 == IF FracGE(per, PerTop)
              THEN LET s3 == IF Abs(elapsed - s.concentric_time) > s.time_tolerance
                             THEN [s1 EXCEPT !.speed_feedback =
                                                 IF elapsed < s.concentric_time THEN "TOO FAST" ELSE "TOO SLOW",
                                             !.feedback_set_time = t,
                                             !.rep_timing_is_good = FALSE]
                             ELSE s1
                   IN  [s3 EXCEPT !.stage = "hold"]
              ELSE IF elapsed > s.concentric_time + s.time_tolerance
                   THEN [s1 EXCEPT !.speed_feedback = "TOO SLOW", !.rep_timing_is_good = FALSE]
                   ELSE s1
    IN  [self |-> s2, pace |-> Min(elapsed, s.concentric_time)]

\* lines 144-161
StageGoingUp(s, per, t, elapsed) ==
    LET s1 == StageMessage(s, t, "GO")
        s2 == IF FracGE(per, PerTop)
              THEN LET s3 == IF Abs(elapsed - s.concentric_time) > s.time_tolerance
                             THEN [s1 EXCEPT !.speed_feedback =
                                                 IF elapsed < s.concentric_time THEN "TOO FAST" ELSE "TOO SLOW",
                                             !.feedback_set_time = t,
                                             !.rep_timing_is_good = FALSE]
                             ELSE s1
                   IN  [s3 EXCEPT !.stage = "hold", !.stage_start_time = t]
              ELSE IF elapsed > s.concentric_time + s.time_tolerance
                   THEN [s1 EXCEPT !.speed_feedback = "TOO SLOW", !.rep_timing_is_good = FALSE]
                   ELSE s1
    IN  [self |-> s2, pace |-> Min(elapsed, s.concentric_time)]

\* lines 163-180
StageHold(s, per, t, elapsed) ==
    LET s1 == StageMessage(s, t, "HOLD")
        s2 == IF FracLT(per, PerTop)
              THEN [s1 EXCEPT !.speed_feedback = "HOLD AT TOP",
                              !.rep_timing_is_good = FALSE,
                              !.feedback_set_time = t,
                              !.stage = "going_down",
                              !.stage_start_time = t]
              ELSE IF elapsed >= s.hold_time
                   THEN [s1 EXCEPT !.stage = "going_down", !.stage_start_time = t]
                   ELSE s1
    IN  [self |-> s2, pace |-> s.concentric_time + elapsed]

\* CompleteRep with a mistimed repetition counted in both counters
CompleteRep_CountsBoth(s, current_form_is_good, t, elapsed) ==
    LET s1 == IF Abs(elapsed - s.eccentric_time) > s.time_tolerance
              THEN [s EXCEPT !.speed_feedback =
                                 IF elapsed < s.eccentric_time THEN "TOO FAST" ELSE "TOO SLOW",
                             !.rep_timing_is_good = FALSE]
              ELSE s
        s2 == IF s1.rep_timing_is_good /\ current_form_is_good
              THEN [s1 EXCEPT !.good_reps = @ + 1, !.speed_feedback = "GOOD REP!"]
              ELSE [s1 EXCEPT !.bad_reps = @ + 1, !.good_reps = @ + 1,
                              !.speed_feedback =
                                  IF @ \notin inter_stage_warnings THEN "BAD TIMING" ELSE @]
    IN  [s2 EXCEPT !.feedback_set_time = t, !.stage = "down"]

\* CompleteRep that reports every bad repetition as "BAD TIMING"
CompleteRep_OverwritesWarning(s, current_form_is_good, t, elapsed) ==
    LET s1 == IF Abs(elapsed - s.eccentric_time) > s.time_tolerance
              THEN [s EXCEPT !.speed_feedback =
                                 IF elapsed < s.eccentric_time THEN "TOO FAST" ELSE "TOO SLOW",
                             !.rep_timing_is_good = FALSE]
              ELSE s
        s2 == IF s1.rep_timing_is_good /\ current_form_is_good
              THEN [s1 EXCEPT !.good_reps = @ + 1, !.speed_feedback = "GOOD REP!"]
              ELSE [s1 EXCEPT !.bad_reps = @ + 1, !.speed_feedback = "BAD TIMING"]
    IN  [s2 EXCEPT !.feedback_set_time = t, !.stage = "down"]

\* lines 191-203: the repetition is back at the bottom
CompleteRep(s, current_form_is_good, t, elapsed) ==
    LET s1 == IF Abs(elapsed - s.eccentric_time) > s.time_tolerance
              THEN [s EXCEPT !.speed_feedback =
                                 IF elapsed < s.eccentric_time THEN "TOO FAST" ELSE "TOO SLOW",
                             !.rep_timing_is_good = FALSE]
              ELSE s
        s2 == IF s1.rep_timing_is_good /\ current_form_is_good
              THEN [s1 EXCEPT !.good_reps = @ + 1, !.speed_feedback = "GOOD REP!"]
              ELSE [s1 EXCEPT !.bad_reps = @ + 1,
                              !.speed_feedback =
                                  IF @ \notin inter_stage_warnings THEN "BAD TIMING" ELSE @]
    IN  [s2 EXCEPT !.feedback_set_time = t, !.stage = "down"]

\* lines 182-203
StageGoingDown(s, per, current_form_is_good, t, elapsed) ==
    LET s1 == StageMessage(s, t, "BACK SLOWLY")
        s2 == IF FracLE(per, PerBottom) THEN CompleteRep(s1, current_form_is_good, t, elapsed) ELSE s1
    IN  [self |-> s2, pace |-> s.concentric_time + s.hold_time + elapsed]

\* lines 128, 144, 163, 182: the if / elif chain on the stage left by the reset rule
StageStep(s, per, current_form_is_good, t, elapsed) ==
    CASE s.stage = "down" -> StageDown(s, per, t)
      [] s.stage = "going_up" -> StageGoingUp(s, per, t, elapsed)
      [] s.stage = "hold" -> StageHold(s, per, t, elapsed)
      [] s.stage = "going_down" -> StageGoingDown(s, per, current_form_is_good, t, elapsed)

\* lines 119-214
StateMachine(s, per, current_form_is_good, t) ==
    LET elapsed_stage_time == t - s.stage_start_time
    IN  StageStep(GlobalReset(s, per, current_form_is_good, t), per, current_form_is_good,
                  t, elapsed_stage_time)

\* PaceProgress without line 205
PaceProgress_NoClamp(pace, total) == Frac(pace, total)

\* line 205: pace_progress = min(pace_progress, 1.0), as a fraction of total_rep_time
PaceProgress(pace, total) == Frac(Min(pace, total), total)

\* Exercise.update as a whole: the object it leaves, the tuple it returns and
\* the exception it raises.  An exception ends the call where it is raised:
\* at lines 70-75 nothing has been assigned, in the loop of lines 85-116
\* form_feedback has been set to "GOOD" (line 84).
update(s, lm, t) ==
    LET pa == PrimaryAngle(s.landmarks, lm) IN
    IF pa.raised # "none" THEN [self |-> s, ret |-> NoRet, raised |-> pa.raised]
    ELSE
    LET per == _calculate_percentage(pa.angle, s.angle_range, s.type)
        bar == interp(per, 0, 100, BarBottom, BarTop)
        form == FormLoop(s.form_checks, 1, lm)
    IN  IF form.raised # "none"
        THEN [self |-> [s EXCEPT !.form_feedback = "GOOD"], ret |-> NoRet, raised |-> form.raised]
        ELSE
        LET r == StateMachine([s EXCEPT !.form_feedback = form.feedback], per, form.ok, t)
        IN  [self |-> r.self,
             ret |-> [kind |-> "update",
                      bar |-> bar,
                      per |-> per,
                      good_reps |-> r.self.good_reps,
                      bad_reps |-> r.self.bad_reps,
                      form_feedback |-> r.self.form_feedback,
                      speed_feedback |-> r.self.speed_feedback,
                      pace_progress |-> PaceProgress(r.pace, s.total_rep_time)],
             raised |-> "none"]

-----------------------------------------------------------------------------
(* The landmark lists the model feeds to update.                            *)

\* the joint triples whose angle an object reads: its own and its angle checks'
Triples(s) ==
    (IF Len(s.landmarks) = 2 THEN {s.landmarks[1], s.landmarks[2]} ELSE {s.landmarks})
    \cup {s.form_checks[i].landmarks :
            i \in {k \in 1..Len(s.form_checks) : s.form_checks[k].check_type = "angle"}}

\* a complete list has the 33 landmarks of the pose model, each with a visibility
FullLen == 33

\* primary angles at 0, 8, 50, 92 and 100 hundredths of the angle range
PrimarySamples(angle_range) ==
    {angle_range[1] + ((angle_range[2] - angle_range[1]) * p) \div 100 : p \in {0, 8, 50, 92, 100}}

\* a pose that passes every positional check of every exercise
GoodPose ==
    [j \in Joints |->
       CASE j = 12 -> [x |-> 200, y |-> 100]
         [] j = 14 -> [x |-> 150, y |-> 150]
         [] j = 16 -> [x |-> 150, y |-> 120]
         [] j = 24 -> [x |-> 100, y |-> 200]
         [] j = 26 -> [x |-> 100, y |-> 200]
         [] OTHER  -> [x |-> 100, y |-> 110]]

AllVisible == [j \in Joints |-> 90]

\* the angle of each triple: the primary triple reads a, every other triple d
\* degrees off its check's threshold
Angles(s, a, d) ==
    [t \in Triples(s) |->
       IF t = s.landmarks THEN a
       ELSE LET i == CHOOSE k \in 1..Len(s.form_checks) :
                        s.form_checks[k].check_type = "angle" /\ s.form_checks[k].landmarks = t
            IN  s.form_checks[i].threshold + d]

\* Complete, visible lists in a good pose: the primary angle sweeps the range
\* and the angle checks read 10 degrees below or above their thresholds.
TrackingFrames(s) ==
    {[n |-> FullLen, width |-> 4, pt |-> GoodPose, vis |-> AllVisible, ang |-> Angles(s, a, d)] :
        a \in PrimarySamples(s.angle_range), d \in {-10, 10}}

-----------------------------------------------------------------------------
(* History variables.  They record what the calls did and are read by no    *)
(* operator of the program.                                                 *)

\* lapse: a call that begins in "down", or that starts a repetition anew,
\* clears it; a call that begins in a moving stage with the form not good
\* sets it, for the repetition it belongs to
LapseAfter(l, s, s2, form_ok, t) ==
    IF s.stage = "down" \/ (s2.stage = "going_up" /\ s2.stage_start_time = t)
    THEN FALSE
    ELSE l \/ ~ form_ok

\* lap: 1 once the stage has been "down" since the last counted repetition,
\* 2 once "going_up" was seen after that, 3 once "hold", 4 once "going_down"
LapAfter(l, stage_after, counted) ==
    IF counted THEN 1
    ELSE IF l = 1 /\ stage_after = "going_up" THEN 2
    ELSE IF l = 2 /\ stage_after = "hold" THEN 3
    ELSE IF l = 3 /\ stage_after = "going_down" THEN 4
    ELSE l

ScenOff == [at |-> "off", t0 |-> 0, slow |-> FALSE, crossed |-> 0]

ScenIdle == [at |-> "idle", t0 |-> 0, slow |-> FALSE, crossed |-> 0]

\* The observer follows the inputs of the calls, not the object.  From a fresh
\* object ("idle") it expects: percentages below 10, then one of at least 10
\* ("up"), then percentages above 5 until one of at least 90 ("top", reached
\* within tolerance of the concentric time, or later than that: slow), then
\* percentages of at least 90 until the hold time has passed ("down"), then
\* percentages above 5 until one of at most 5 ("done", for a repetition that
\* was not slow only within tolerance of the eccentric time); the form is good
\* in every call.  Any other input turns it "off".  c is the object's
\* configuration, e the time since the observer's phase began.
Observe(o, c, per, form_ok, t) ==
    LET e == t - o.t0 IN
    IF ~ form_ok THEN ScenOff
    ELSE CASE o.at = "idle" ->
                IF FracGE(per, PerStart) THEN [o EXCEPT !.at = "up", !.t0 = t] ELSE o
           [] o.at = "up" ->
                IF FracLE(per, PerBottom) THEN ScenOff
                ELSE IF FracLT(per, PerTop) THEN o
                ELSE IF Abs(e - c.concentric_time) <= c.time_tolerance
                     THEN [o EXCEPT !.at = "top", !.t0 = t, !.crossed = e]
                ELSE IF e > c.concentric_time + c.time_tolerance
                     THEN [o EXCEPT !.at = "top", !.t0 = t, !.slow = TRUE, !.crossed = e]
                ELSE ScenOff
           [] o.at = "top" ->
                IF FracLT(per, PerTop) THEN ScenOff
                ELSE IF e >= c.hold_time THEN [o EXCEPT !.at = "down", !.t0 = t]
                ELSE o
           [] o.at = "down" ->
                IF ~ FracLE(per, PerBottom) THEN o
                ELSE IF o.slow \/ Abs(e - c.eccentric_time) <= c.time_tolerance
                     THEN [o EXCEPT !.at = "done", !.t0 = t]
                ELSE ScenOff
           [] OTHER -> ScenOff

-----------------------------------------------------------------------------
(* The session: main builds the object and calls update on each tracked     *)
(* frame whose landmark list is not empty (lines 586-595).                  *)

Init ==
    /\ now = 0
    /\ \E name \in ExerciseNames : self = Exercise(EXERCISE_CONFIG[name], 0)
    /\ lmList = NoFrame
    /\ ret = NoRet
    /\ raised = "none"
    /\ args = NoArgs
    /\ entry = "none"
    /\ lap = 1
    /\ scen = ScenOff
    /\ lapse = FALSE

\* one call of exercise_handler.update, dt after the previous one; an
\* exception is not caught anywhere and ends the program
Update(lm, dt) ==
    /\ self # NoObject
    /\ raised = "none"
    /\ lm.n # 0
    /\ now + dt <= MaxTime
    /\ now' = now + dt
    /\ lmList' = lm
    /\ \E r \in {update(self, lm, now + dt)} :
           /\ self' = r.self
           /\ ret' = r.ret
           /\ raised' = r.raised
           /\ lap' = LapAfter(lap, r.self.stage,
                              r.self.good_reps + r.self.bad_reps # self.good_reps + self.bad_reps)
           /\ scen' = IF r.raised = "none"
                      THEN Observe(scen, self, r.ret.per, r.self.form_feedback = "GOOD", now + dt)
                      ELSE ScenOff
           /\ lapse' = IF r.raised = "none"
                       THEN LapseAfter(lapse, self, r.self, r.self.form_feedback = "GOOD", now + dt)
                       ELSE lapse
    /\ entry' = self.stage
    /\ UNCHANGED args

Steps == {TickStep, 2 * TickStep}

Next ==
    \E lm \in TrackingFrames(self), dt \in Steps : Update(lm, dt)

Spec == Init /\ [][Next]_vars

\* the same session, watched by the scenario observer from the first call on
InitCycle ==
    /\ now = 0
    /\ \E name \in ExerciseNames : self = Exercise(EXERCISE_CONFIG[name], 0)
    /\ lmList = NoFrame
    /\ ret = NoRet
    /\ raised = "none"
    /\ args = NoArgs
    /\ entry = "none"
    /\ lap = 1
    /\ scen = ScenIdle
    /\ lapse = FALSE

SpecCycle == InitCycle /\ [][Next]_vars

-----------------------------------------------------------------------------
(* C1 - C4: one repetition                                                  *)

Bicep == EXERCISE_CONFIG["bicep_curl"]

\* C1: from a fresh object, calls whose percentage goes below 10 -> at least
\* 10 -> at least 90 (reached within tolerance of the concentric time) ->
\* at least 90 until the hold time has passed -> at most 5 (reached within
\* tolerance of the eccentric time), the form good in every call, count no
\* repetition before the last call and exactly one good and no bad repetition
\* with it; the object ends in stage "down" with speed feedback "GOOD REP!".
\* Along the way the object is in the stage the scenario is in.
C1_OneGoodRep ==
    ~ scen.slow =>
        /\ scen.at \in {"idle", "up", "top", "down"} => self.good_reps = 0 /\ self.bad_reps = 0
        /\ scen.at = "idle" => self.stage = "down"
        /\ scen.at = "up" => self.stage = "going_up"
        /\ scen.at = "top" => self.stage = "hold"
        /\ scen.at = "down" => self.stage = "going_down"
        /\ scen.at = "done" =>
              /\ self.good_reps = 1
              /\ self.bad_reps = 0
              /\ self.stage = "down"
              /\ self.speed_feedback = "GOOD REP!"
              /\ ret.speed_feedback = "GOOD REP!"
              /\ ret.good_reps = 1
              /\ ret.bad_reps = 0

\* the bicep curl has gone through the scenario with good timing
C1_Witness ==
    /\ scen.at = "done"
    /\ ~ scen.slow
    /\ self.angle_range = Bicep.angle_range
    /\ self.concentric_time = Bicep.timing.concentric
    /\ self.time_tolerance = Bicep.timing.tolerance
    /\ entry = "going_down"

\* C2: an update call made in stage "going_up" with the form not good leaves
\* the object, when it returns, in stage "down" with speed feedback
\* "REP RESET" and both counters as they were.
C2_BadFormEndsDown ==
    [][(/\ self.stage = "going_up"
        /\ raised' = "none"
        /\ self'.form_feedback # "GOOD")
       => (/\ self'.stage = "down"
           /\ self'.speed_feedback = "REP RESET"
           /\ self'.good_reps = self.good_reps
           /\ self'.bad_reps = self.bad_reps)]_vars

\* C3: an update call changes neither counter or adds exactly 1 to exactly
\* one of them; it counts only when it began in stage "going_down" and its
\* percentage is at most 5, and by then the stages have gone through down,
\* going_up, hold and going_down, in that order, since the last count.
C3_CountsOncePerCycle ==
    [][/\ \/ (self'.good_reps = self.good_reps /\ self'.bad_reps = self.bad_reps)
          \/ (self'.good_reps = self.good_reps + 1 /\ self'.bad_reps = self.bad_reps)
          \/ (self'.good_reps = self.good_reps /\ self'.bad_reps = self.bad_reps + 1)
       /\ (self'.good_reps # self.good_reps \/ self'.bad_reps # self.bad_reps)
            => (/\ self.stage = "going_down"
                /\ raised' = "none"
                /\ FracLE(ret'.per, PerBottom)
                /\ lap = 4
                /\ lap' = 1
                /\ self'.stage = "down")]_vars

\* a good and a bad repetition have been counted, the second just now
C3_Witness ==
    /\ self.good_reps >= 1
    /\ self.bad_reps >= 1
    /\ entry = "going_down"
    /\ self.stage = "down"
    /\ lap = 1
    /\ FracLE(ret.per, PerBottom)

\* C4: in the scenario of C1 with the 90 % crossing later than the concentric
\* time plus the tolerance, the call of the crossing returns speed feedback
\* "TOO SLOW", and the call that completes the repetition counts it as bad and
\* not as good.
C4_SlowCrossingIsBad ==
    scen.slow =>
        /\ (scen.at = "top" /\ scen.t0 = now) =>
              /\ ret.speed_feedback = "TOO SLOW"
              /\ self.stage = "hold"
              /\ ~ self.rep_timing_is_good
        /\ scen.at \in {"top", "down"} => self.good_reps = 0 /\ self.bad_reps = 0
        /\ scen.at = "done" =>
              /\ self.bad_reps = 1
              /\ self.good_reps = 0
              /\ self.stage = "down"

\* a repetition whose crossing came 1 s after the concentric time plus the
\* tolerance has been completed
C4_Witness ==
    /\ scen.at = "done"
    /\ scen.slow
    /\ scen.crossed = self.concentric_time + self.time_tolerance + 10
    /\ entry = "going_down"

-----------------------------------------------------------------------------
(* Form evaluation on poor tracking data: one tracked frame, then one frame *)
(* that may be partial (17 or 25 landmarks), lack the visibility field,     *)
(* have a hidden joint, read angles outside the range and put joints where  *)
(* positional checks fail or degenerate.                                    *)

\* the second call of the form session is made before FormHorizon
FormHorizon == 10

FormLens == {17, 25, FullLen}

\* the joints a positional check of the object reads, but shoulder and hip
PositionalJoints(s) ==
    UNION {{s.form_checks[i].landmarks[1], s.form_checks[i].landmarks[2]} :
             i \in {k \in 1..Len(s.form_checks) : s.form_checks[k].check_type = "positional"}}
    \ {12, 24}

\* where a joint sits when it breaks its positional check
BadPose ==
    [j \in Joints |->
       CASE j = 14 -> [x |-> 150, y |-> 50]
         [] j = 16 -> [x |-> 150, y |-> 50]
         [] j = 26 -> [x |-> 100, y |-> 150]
         [] j = 28 -> [x |-> 100, y |-> 300]
         [] OTHER  -> GoodPose[j]]

\* the hip: leaning enough, nearly below the shoulder, level with the shoulder
HipSamples(s) ==
    IF \E i \in 1..Len(s.form_checks) :
          s.form_checks[i].check_type = "positional" /\ s.form_checks[i].condition = "lean"
    THEN {GoodPose[24], [x |-> 195, y |-> 200], [x |-> 100, y |-> 100]}
    ELSE {GoodPose[24]}

Poses(s) ==
    {[j \in Joints |-> IF j = 24 THEN hip ELSE IF j \in S THEN BadPose[j] ELSE GoodPose[j]] :
        S \in SUBSET PositionalJoints(s), hip \in HipSamples(s)}

ShoulderHidden == [j \in Joints |-> IF j = 12 THEN 50 ELSE 90]

MidAngle(angle_range) == (angle_range[1] + angle_range[2]) \div 2

FormFrames(s) ==
    {[n |-> n, width |-> w, pt |-> p, vis |-> v, ang |-> Angles(s, a, d)] :
        n \in FormLens, w \in {3, 4}, p \in Poses(s), v \in {AllVisible, ShoulderHidden},
        a \in {s.angle_range[1] - 20, MidAngle(s.angle_range), s.angle_range[2] + 20},
        d \in {-10, 10}}

NextForm ==
    \E lm \in (IF now = 0 THEN TrackingFrames(self) ELSE FormFrames(self)) :
        /\ now < FormHorizon
        /\ Update(lm, TickStep)

SpecForm == Init /\ [][NextForm]_vars

-----------------------------------------------------------------------------
(* C5 - C7: form evaluation                                                 *)

\* C5: update raises no error, whatever non-empty landmark list it is given
\* and whatever stage it is called in.
C5_UpdateNeverRaises ==
    raised = "none"

\* the checks whose joints are all in the landmark list; a visibility check
\* reads no joint that is not there
Available(check, lm) ==
    \/ check.check_type = "visibility"
    \/ \A i \in 1..Len(check.landmarks) : InList(lm, check.landmarks[i])

\* a check's failure condition, taken alone
CheckFails(check, lm) ==
    CASE check.check_type = "visibility" ->
           ~ check_body_visibility(lm, check.landmarks, VisThreshold)
      [] check.check_type = "positional" ->
           /\ ~ PositionalRaises(check.condition, lm.pt[check.landmarks[1]], lm.pt[check.landmarks[2]])
           /\ PositionalCondition(check.condition, lm.pt[check.landmarks[1]], lm.pt[check.landmarks[2]])
      [] check.check_type = "angle" ->
           AngleCondition(check.condition,
                          findAngle(lm, check.landmarks[1], check.landmarks[2], check.landmarks[3]),
                          check.threshold)

\* the indices of the checks that are available and fail
Failing(checks, lm) ==
    {i \in 1..Len(checks) : Available(checks[i], lm) /\ CheckFails(checks[i], lm)}

FirstOf(S) == CHOOSE i \in S : \A j \in S : i <= j

\* the verdict when unavailable checks are skipped: the message of the first
\* available check that fails, or "GOOD"
VerdictSkipping(checks, lm) ==
    IF Failing(checks, lm) = {} THEN "GOOD" ELSE checks[FirstOf(Failing(checks, lm))].feedback

\* the primary angle can be read and some angle or positional check reads a
\* joint that is not in the list
MissesCheckJoint(s, lm) ==
    /\ PrimaryAngle(s.landmarks, lm).raised = "none"
    /\ \E i \in 1..Len(s.form_checks) : ~ Available(s.form_checks[i], lm)

\* C6: when an angle check or a positional check reads a joint that is not in
\* the landmark list, the check is skipped: the call goes on and the form
\* feedback is decided by the other checks.
C6_MissingJointSkipsCheck ==
    (entry # "none" /\ MissesCheckJoint(self, lmList)) =>
        /\ raised = "none"
        /\ self.form_feedback = VerdictSkipping(self.form_checks, lmList)

\* C7: the first check, in declaration order, whose failure condition is true
\* decides: form_feedback is its message and the form is not good (a
\* repetition under way is reset); if no check fails form_feedback is
\* "GOOD" and the form is good (nothing is reset above 5 %).
C7_FirstFailingCheckWins ==
    (entry # "none" /\ raised = "none") =>
        LET F == Failing(self.form_checks, lmList) IN
        /\ F # {} => /\ self.form_feedback = self.form_checks[FirstOf(F)].feedback
                     /\ ret.form_feedback = self.form_checks[FirstOf(F)].feedback
                     /\ entry = "going_up" => self.speed_feedback = "REP RESET"
        /\ F = {} => /\ self.form_feedback = "GOOD"
                     /\ ret.form_feedback = "GOOD"
                     /\ (entry = "going_up" /\ ~ FracLE(ret.per, PerBottom))
                           => self.speed_feedback # "REP RESET"

\* a call in stage "going_up" in which two checks fail at once and the second
\* one's message is not the one shown
C7_Witness ==
    /\ entry = "going_up"
    /\ raised = "none"
    /\ Cardinality(Failing(self.form_checks, lmList)) >= 2
    /\ \E i \in Failing(self.form_checks, lmList) :
          /\ i # FirstOf(Failing(self.form_checks, lmList))
          /\ self.form_checks[i].feedback # self.form_feedback

-----------------------------------------------------------------------------
(* Construction from arbitrary arguments.                                   *)

RangeSamples == {40, 90, 160}

DurationSamples == {-10, 0, 20}

ToleranceSamples == {0, 7}

ConstructorArgs ==
    {[kind |-> "init",
      config |-> [Bicep EXCEPT !.angle_range = <<lo, hi>>, !.timing = tm]] :
        lo \in RangeSamples, hi \in RangeSamples,
        tm \in {NoTiming} \cup {Timing(c, h, e, tol) : c \in DurationSamples, h \in DurationSamples,
                                                        e \in DurationSamples, tol \in ToleranceSamples}}

InitConstruct ==
    /\ now = 0
    /\ self = NoObject
    /\ lmList = NoFrame
    /\ ret = NoRet
    /\ raised = "none"
    /\ args \in ConstructorArgs
    /\ entry = "none"
    /\ lap = 1
    /\ scen = ScenOff
    /\ lapse = FALSE

\* exercise_handler = Exercise(**config), lines 13-43: no statement of
\* __init__ raises
Construct ==
    /\ self = NoObject
    /\ args.kind = "init"
    /\ self' = Exercise(args.config, now)
    /\ ret' = [kind |-> "init"]
    /\ raised' = "none"
    /\ UNCHANGED <<now, lmList, args, entry, lap, scen, lapse>>

NextConstruct == Construct

SpecConstruct == InitConstruct /\ [][NextConstruct]_vars

\* the angle range is malformed or a duration of the timing is not positive
Malformed(c) ==
    \/ c.angle_range[1] >= c.angle_range[2]
    \/ /\ c.timing # NoTiming
       /\ (c.timing.concentric <= 0 \/ c.timing.hold <= 0 \/ c.timing.eccentric <= 0)

\* C8: constructing an object with an angle range whose minimum is not below
\* its maximum, or with a concentric, hold or eccentric duration that is not
\* positive, fails with InvalidConfiguration: no object exists that update
\* could be called on.
C8_MalformedConfigRejected ==
    (args.kind = "init" /\ Malformed(args.config)) =>
        /\ self = NoObject
        /\ ret.kind = "init" => raised = "InvalidConfiguration"

-----------------------------------------------------------------------------
(* _calculate_percentage on the configured angle ranges and directions, on  *)
(* two angles at a time.                                                    *)

InitPercentage ==
    /\ now = 0
    /\ self = NoObject
    /\ lmList = NoFrame
    /\ ret = NoRet
    /\ raised = "none"
    /\ \E name \in ExerciseNames :
         LET r == EXERCISE_CONFIG[name].angle_range IN
         \E a \in (r[1] - AngleSlack)..(r[2] + AngleSlack), b \in (r[1] - AngleSlack)..(r[2] + AngleSlack) :
            args = [kind |-> "percentage", angle |-> a, other |-> b, angle_range |-> r,
                    progress_type |-> EXERCISE_CONFIG[name].progress_type]
    /\ entry = "none"
    /\ lap = 1
    /\ scen = ScenOff
    /\ lapse = FALSE

\* per = self._calculate_percentage(angle, self.angle_range, self.type), line 78
CalculatePercentage ==
    /\ args.kind = "percentage"
    /\ ret = NoRet
    /\ ret' = [kind |-> "percentage",
               per |-> _calculate_percentage(Frac(args.angle, 1), args.angle_range, args.progress_type),
               other |-> _calculate_percentage(Frac(args.other, 1), args.angle_range, args.progress_type)]
    /\ UNCHANGED <<self, now, lmList, raised, args, entry, lap, scen, lapse>>

NextPercentage == CalculatePercentage

SpecPercentage == InitPercentage /\ [][NextPercentage]_vars

\* a fraction equal to the integer k
FracIs(a, k) == a.num = k * a.den

\* a <= b for fractions with positive denominators
FracLeq(a, b) == a.num * b.den <= b.num * a.den

\* C9: for an angle below min_angle or above max_angle the percentage is the
\* one at the nearest end of the range (100 and 0 for "normal", 0 and 100 for
\* "inverse"), and no percentage is below 0 or above 100.
C9_PercentageClamped ==
    ret.kind = "percentage" =>
        /\ FracGE(ret.per, 0) /\ FracLE(ret.per, 100)
        /\ args.angle < args.angle_range[1] =>
              FracIs(ret.per, IF args.progress_type = "inverse" THEN 0 ELSE 100)
        /\ args.angle > args.angle_range[2] =>
              FracIs(ret.per, IF args.progress_type = "inverse" THEN 100 ELSE 0)

\* the percentage of an angle above the range of an "inverse" exercise
C9_Witness ==
    /\ ret.kind = "percentage"
    /\ args.progress_type = "inverse"
    /\ args.angle > args.angle_range[2]
    /\ FracIs(ret.per, 100)

\* C10: within [min_angle, max_angle] the percentage does not increase with
\* the angle for "normal" and does not decrease for "inverse"; it is exactly
\* 100 at min_angle and 0 at max_angle for "normal", 0 and 100 for "inverse".
C10_PercentageMonotonic ==
    ret.kind = "percentage" =>
        /\ (/\ args.angle_range[1] <= args.angle
            /\ args.angle <= args.other
            /\ args.other <= args.angle_range[2])
             => IF args.progress_type = "inverse"
                THEN FracLeq(ret.per, ret.other)
                ELSE FracLeq(ret.other, ret.per)
        /\ args.angle = args.angle_range[1] =>
              FracIs(ret.per, IF args.progress_type = "inverse" THEN 0 ELSE 100)
        /\ args.angle = args.angle_range[2] =>
              FracIs(ret.per, IF args.progress_type = "inverse" THEN 100 ELSE 0)

\* two angles inside the range of a "normal" exercise with different
\* percentages, neither of them 0 or 100
C10_Witness ==
    /\ ret.kind = "percentage"
    /\ args.progress_type = "normal"
    /\ args.angle_range[1] < args.angle
    /\ args.angle < args.other
    /\ args.other < args.angle_range[2]
    /\ ~ FracLeq(ret.per, ret.other)

-----------------------------------------------------------------------------
(* C11: pace progress                                                       *)

\* C11: the pace progress that update returns is at least 0 and at most 1, in
\* every stage and however long the stage has lasted.
C11_PaceWithinUnit ==
    ret.kind = "update" =>
        /\ ret.pace_progress.den > 0
        /\ 0 <= ret.pace_progress.num
        /\ ret.pace_progress.num <= ret.pace_progress.den

\* a call in stage "going_down" made so late that concentric, hold and elapsed
\* time add up to more than the whole repetition; it returns exactly 1
C11_Witness ==
    /\ ret.kind = "update"
    /\ entry = "going_down"
    /\ self.stage = "going_down"
    /\ self.concentric_time + self.hold_time + (now - self.stage_start_time) > self.total_rep_time
    /\ ret.pace_progress.num = ret.pace_progress.den

-----------------------------------------------------------------------------
(* The tracking loop of main with its keys: a tracked frame with landmarks  *)
(* calls update, one without does not, and the keys r and 1-5 replace the   *)
(* object.  After such a key main waits for the body and counts down before *)
(* it tracks again; update is not called meanwhile and the first call on a  *)
(* new object reads none of its time stamps, so that wait is not modelled.  *)

MainHorizon == 30

exercise_keys ==
    [k \in {"1", "2", "3", "4", "5"} |->
        CASE k = "1" -> "bicep_curl"
          [] k = "2" -> "squat"
          [] k = "3" -> "wall_push_up"
          [] k = "4" -> "glute_bridge"
          [] k = "5" -> "seated_leg_raise"]

ResetKeys == {"r"} \cup DOMAIN exercise_keys

\* main's current_exercise_name: the name whose configuration built s
current_exercise_name(s) ==
    CHOOSE name \in ExerciseNames :
        Exercise(EXERCISE_CONFIG[name], s.stage_start_time) =
            [s EXCEPT !.good_reps = 0, !.bad_reps = 0, !.stage = "down",
                      !.feedback_set_time = s.stage_start_time,
                      !.form_feedback = "START", !.speed_feedback = "START",
                      !.rep_timing_is_good = TRUE]

\* the key handler that leaves the object as it is
Reset_KeepsHandler(key, dt) ==
    /\ self # NoObject
    /\ raised = "none"
    /\ now + dt <= MaxTime
    /\ now' = now + dt
    /\ ret' = [kind |-> "reset", key |-> key, after |-> ret.kind]
    /\ entry' = self.stage
    /\ UNCHANGED <<self, lmList, raised, args, lap, scen, lapse>>

\* lines 609-613: key r or 1-5, read in the loop iteration that ends dt after
\* the previous one; ret notes the key and, in "after", what the iteration
\* before did
Reset(key, dt) ==
    /\ self # NoObject
    /\ raised = "none"
    /\ now + dt <= MaxTime
    /\ now' = now + dt
    /\ \E name \in {IF key \in DOMAIN exercise_keys THEN exercise_keys[key]
                    ELSE current_exercise_name(self)} :
           self' = Exercise(EXERCISE_CONFIG[name], now + dt)
    /\ ret' = [kind |-> "reset", key |-> key, after |-> ret.kind]
    /\ entry' = self.stage
    /\ lap' = 1
    /\ scen' = ScenOff
    /\ lapse' = FALSE
    /\ UNCHANGED <<lmList, raised, args>>

\* the frame without landmarks that makes the object give up the repetition
NoPersonFrame_DropsRep(dt) ==
    /\ self # NoObject
    /\ raised = "none"
    /\ now + dt <= MaxTime
    /\ now' = now + dt
    /\ lmList' = NoFrame
    /\ self' = [self EXCEPT !.stage = "down"]
    /\ ret' = [kind |-> "no_person",
               bar |-> Frac(100, 1),
               per |-> Frac(0, 1),
               good_reps |-> self.good_reps,
               bad_reps |-> self.bad_reps,
               form_feedback |-> "NO PERSON DETECTED",
               speed_feedback |-> "",
               pace_progress |-> Frac(0, 1)]
    /\ UNCHANGED <<raised, args, entry, lap, scen, lapse>>

\* lines 578-601 on a frame with an empty landmark list: update is not called
\* and main draws its placeholders and the object's counts
NoPersonFrame(dt) ==
    /\ self # NoObject
    /\ raised = "none"
    /\ now + dt <= MaxTime
    /\ now' = now + dt
    /\ lmList' = NoFrame
    /\ ret' = [kind |-> "no_person",
               bar |-> Frac(100, 1),
               per |-> Frac(0, 1),
               good_reps |-> self.good_reps,
               bad_reps |-> self.bad_reps,
               form_feedback |-> "NO PERSON DETECTED",
               speed_feedback |-> "",
               pace_progress |-> Frac(0, 1)]
    /\ UNCHANGED <<self, raised, args, entry, lap, scen, lapse>>

NextMain ==
    /\ now < MainHorizon
    /\ \/ \E lm \in TrackingFrames(self), dt \in Steps : Update(lm, dt)
       \/ \E dt \in Steps : NoPersonFrame(dt)
       \/ \E key \in ResetKeys, dt \in Steps : Reset(key, dt)

SpecMain == Init /\ [][NextMain]_vars

-----------------------------------------------------------------------------
(* C12, C13: reset and frames without landmarks                             *)

\* the object a reset leaves is new: stage "down", no counts, no verdict yet,
\* both time stamps at the time of the reset
FreshAt(s, t) ==
    /\ s.stage = "down"
    /\ s.good_reps = 0
    /\ s.bad_reps = 0
    /\ s.rep_timing_is_good
    /\ s.form_feedback = "START"
    /\ s.speed_feedback = "START"
    /\ s.stage_start_time = t
    /\ s.feedback_set_time = t

\* a reset that follows a reset and keeps the exercise
ResetAgain ==
    /\ ret.kind = "reset"
    /\ ret'.kind = "reset"
    /\ current_exercise_name(self') = current_exercise_name(self)

\* C12 as stated: a reset from any state leaves stage "down" and counts 0, and
\* a second reset in a row leaves the object exactly as the first one left it.
C12_ResetTwiceSameState ==
    [][ret'.kind = "reset" =>
          /\ self'.stage = "down"
          /\ self'.good_reps = 0
          /\ self'.bad_reps = 0
          /\ ResetAgain => self' = self]_vars

\* C12: a reset from any state leaves a new object in stage "down" with counts
\* 0, and a second reset in a row leaves the object as the first one left it
\* except for stage_start_time and feedback_set_time, which are the time of
\* the second reset.
C12_ResetTwiceSameButStamps ==
    [][ret'.kind = "reset" =>
          /\ FreshAt(self', now')
          /\ ResetAgain =>
                 self' = [self EXCEPT !.stage_start_time = now',
                                      !.feedback_set_time = now']]_vars

\* two resets in a row
C12_Witness ==
    /\ ret.kind = "reset"
    /\ ret.after = "reset"
    /\ entry = "down"
    /\ FreshAt(self, now)

\* C13: a tracked frame with an empty landmark list leaves every field of the
\* object as it was, and the counts drawn are the object's counts, which are
\* the counts of the frame before.
C13_EmptyFrameChangesNothing ==
    [][ret'.kind = "no_person" =>
          /\ self' = self
          /\ raised' = raised
          /\ ret'.good_reps = self.good_reps
          /\ ret'.bad_reps = self.bad_reps
          /\ ret.kind \in {"update", "no_person"} =>
                 /\ ret'.good_reps = ret.good_reps
                 /\ ret'.bad_reps = ret.bad_reps]_vars

\* a frame without landmarks in the middle of a repetition, after a counted one
C13_Witness ==
    /\ ret.kind = "no_person"
    /\ lmList = NoFrame
    /\ self.stage \in {"going_up", "hold", "going_down"}
    /\ self.good_reps + self.bad_reps >= 1
    /\ ret.good_reps = self.good_reps
    /\ ret.bad_reps = self.bad_reps

-----------------------------------------------------------------------------
(* The visibility gate, called by main while it waits for the body (lines   *)
(* 555-566) with the visibility landmarks of the current exercise.          *)

\* lengths of detector.lmList: empty, or ending after joint 12, 24, 28 or 32
VisibilityLens == {13, 25, 29, FullLen}

VisibilityScores == {VisThreshold - 1, VisThreshold, 95}

Thresholds == {VisThreshold, 90}

\* the scores of the required joints vary, every other joint is well visible
ScoresOf(required_ids) ==
    {v \in [Joints -> VisibilityScores] :
        \A j \in Joints : (\A i \in 1..Len(required_ids) : required_ids[i] # j) => v[j] = 95}

VisibilityFrames(s, required_ids) ==
    {NoFrame} \cup
    {[n |-> n, width |-> w, pt |-> GoodPose, vis |-> v,
      ang |-> Angles(s, MidAngle(s.angle_range), 10)] :
        n \in VisibilityLens, w \in {3, 4}, v \in ScoresOf(required_ids)}

InitVisibility ==
    /\ now = 0
    /\ \E name \in ExerciseNames :
          /\ self = Exercise(EXERCISE_CONFIG[name], 0)
          /\ \E t \in Thresholds :
                args = [kind |-> "visibility",
                        required_ids |-> EXERCISE_CONFIG[name].visibility_check.landmarks,
                        threshold |-> t]
          /\ lmList \in VisibilityFrames(self, EXERCISE_CONFIG[name].visibility_check.landmarks)
    /\ ret = NoRet
    /\ raised = "none"
    /\ entry = "none"
    /\ lap = 1
    /\ scen = ScenOff
    /\ lapse = FALSE

\* line 559: is_visible = check_body_visibility(detector.lmList, landmarks)
CheckVisibility ==
    /\ args.kind = "visibility"
    /\ ret = NoRet
    /\ ret' = [kind |-> "visibility",
               value |-> check_body_visibility(lmList, args.required_ids, args.threshold)]
    /\ UNCHANGED <<self, now, lmList, raised, args, entry, lap, scen, lapse>>

NextVisibility == CheckVisibility

SpecVisibility == InitVisibility /\ [][NextVisibility]_vars

\* C14: the gate answers true exactly when the list is not empty and every
\* required id lies inside it, carries a visibility score and has a score of
\* at least the threshold; otherwise it answers false.
C14_VisibleIffAllRequiredSeen ==
    ret.kind = "visibility" =>
        (ret.value = TRUE <=>
            /\ lmList.n # 0
            /\ \A i \in 1..Len(args.required_ids) :
                  /\ args.required_ids[i] < lmList.n
                  /\ lmList.width >= 4
                  /\ lmList.vis[args.required_ids[i]] >= args.threshold)

\* the gate answers true at the default threshold although one required joint
\* scores exactly the threshold
C14_Witness ==
    /\ ret.kind = "visibility"
    /\ ret.value = TRUE
    /\ args.threshold = VisThreshold
    /\ \E i \in 1..Len(args.required_ids) : lmList.vis[args.required_ids[i]] = VisThreshold

-----------------------------------------------------------------------------
(* The session with frames that follow each other quickly, so that a        *)
(* message stamped less than 0.5 s ago meets the next call.                 *)

FineStep == 4

FineHorizon == 40

FineSteps == {FineStep, 3 * FineStep}

NextFine ==
    /\ now < FineHorizon
    /\ \E lm \in TrackingFrames(self), dt \in FineSteps : Update(lm, dt)

SpecFine == Init /\ [][NextFine]_vars

-----------------------------------------------------------------------------
(* C15 - C17: what one call does in "going_up", "hold" and "going_down".    *)
(* The formulas below read the object before the call (self), the object    *)
(* after it (self') and the tuple it returned (ret').                       *)

\* the step is a call of update that returned
Called == now' # now /\ ret'.kind = "update"

\* the form verdict of the call
FormOk == self'.form_feedback = "GOOD"

\* the call applied the reset rule: bad form while moving, or a percentage of
\* at most 5 in "going_up" or "hold"
ResetNow ==
    \/ ~ FormOk /\ self.stage \in {"going_up", "hold", "going_down"}
    \/ FracLE(ret'.per, PerBottom) /\ self.stage \in {"going_up", "hold"}

\* the time the stage has lasted when the call is made
Elapsed == now' - self.stage_start_time

\* the message the call starts with is a warning stamped less than 0.5 s ago
WarningActive ==
    /\ self.speed_feedback \in {"TOO FAST", "TOO SLOW", "HOLD AT TOP"}
    /\ now' - self.feedback_set_time < WarningWindow

\* C15: a call in "going_up" with a percentage of at least 90 and no reset
\* always enters "hold" and restarts the stage timer; exactly when the elapsed
\* time is off the concentric time by more than the tolerance it marks the
\* timing bad and reports "TOO FAST" or "TOO SLOW", and within the tolerance
\* it leaves rep_timing_is_good as it was.
C15_CrossingEntersHold ==
    [][(Called /\ self.stage = "going_up" /\ ~ ResetNow /\ FracGE(ret'.per, PerTop)) =>
          /\ self'.stage = "hold"
          /\ self'.stage_start_time = now'
          /\ IF Abs(Elapsed - self.concentric_time) > self.time_tolerance
             THEN /\ ~ self'.rep_timing_is_good
                  /\ ret'.speed_feedback =
                         IF Elapsed < self.concentric_time THEN "TOO FAST" ELSE "TOO SLOW"
             ELSE /\ self'.rep_timing_is_good = self.rep_timing_is_good
                  /\ ret'.speed_feedback \notin {"TOO FAST", "TOO SLOW"} \/ WarningActive
                  /\ self'.feedback_set_time = self.feedback_set_time]_vars

\* the top was crossed too late: "hold" begins with "TOO SLOW" and bad timing
C15_Witness ==
    /\ ret.kind = "update"
    /\ entry = "going_up"
    /\ self.stage = "hold"
    /\ self.stage_start_time = now
    /\ self.speed_feedback = "TOO SLOW"
    /\ self.feedback_set_time = now
    /\ ~ self.rep_timing_is_good

\* C16: a call in "hold" without reset marks the timing bad and reports "HOLD
\* AT TOP" only when the percentage is below 90 and the hold time has not yet
\* passed; once the hold time has passed the call enters "going_down" and
\* leaves rep_timing_is_good as it was.
C16_OnlyEarlyExitPenalized ==
    [][(Called /\ self.stage = "hold" /\ ~ ResetNow) =>
          /\ (ret'.speed_feedback = "HOLD AT TOP" \/ self'.rep_timing_is_good # self.rep_timing_is_good)
                 => (FracLT(ret'.per, PerTop) /\ Elapsed < self.hold_time)
          /\ Elapsed >= self.hold_time =>
                 /\ self'.stage = "going_down"
                 /\ self'.rep_timing_is_good = self.rep_timing_is_good]_vars

\* C17: a call in "going_down" with a percentage of at most 5 counts a good
\* repetition and reports "GOOD REP!" if the timing is good after the eccentric
\* test and the form is good; otherwise it counts a bad one and reports "BAD
\* TIMING" unless the message is a warning, which it keeps.  Either way the
\* stage becomes "down" and feedback_set_time the time of the call.
C17_CompletionVerdict ==
    [][(Called /\ self.stage = "going_down" /\ ~ ResetNow /\ FracLE(ret'.per, PerBottom)) =>
          LET late == Abs(Elapsed - self.eccentric_time) > self.time_tolerance
              current == IF late
                         THEN IF Elapsed < self.eccentric_time THEN "TOO FAST" ELSE "TOO SLOW"
                         ELSE IF WarningActive THEN self.speed_feedback ELSE "BACK SLOWLY"
          IN  /\ IF self.rep_timing_is_good /\ ~ late /\ FormOk
                 THEN /\ self'.good_reps = self.good_reps + 1
                      /\ self'.bad_reps = self.bad_reps
                      /\ ret'.speed_feedback = "GOOD REP!"
                 ELSE /\ self'.bad_reps = self.bad_reps + 1
                      /\ self'.good_reps = self.good_reps
                      /\ ret'.speed_feedback =
                             IF current \in {"TOO FAST", "TOO SLOW", "HOLD AT TOP"}
                             THEN current ELSE "BAD TIMING"
              /\ ret'.good_reps = self'.good_reps
              /\ ret'.bad_reps = self'.bad_reps
              /\ self'.stage = "down"
              /\ self'.feedback_set_time = now']_vars

\* a repetition that left the hold early is completed while "HOLD AT TOP" is
\* still active: it is counted bad and the warning is kept
C17_Witness ==
    /\ ret.kind = "update"
    /\ entry = "going_down"
    /\ self.stage = "down"
    /\ self.bad_reps >= 1
    /\ ret.speed_feedback = "HOLD AT TOP"
    /\ self.feedback_set_time = now

-----------------------------------------------------------------------------
(* C18 - C20: message windows and the stage timer.  The age of a message is *)
(* the time since feedback_set_time, which the call that completes or       *)
(* resets a repetition sets for the message it leaves.                      *)

\* C18: a call that handles stage "down" returns the message it found if that
\* is a final message or a warning stamped less than 1.0 s ago, and "LIFT UP"
\* otherwise (a call that resets the repetition finds its own "REP RESET");
\* so no final message or warning is returned from "down" 1.0 s or more after
\* its stamp.
C18_DownMessageWindow ==
    [][(Called /\ (self.stage = "down" \/ ResetNow)) =>
          /\ ret'.speed_feedback =
                 IF ResetNow THEN "REP RESET"
                 ELSE IF /\ self.speed_feedback \in
                              {"GOOD REP!", "BAD TIMING", "REP RESET", "TOO FAST", "TOO SLOW", "HOLD AT TOP"}
                         /\ now' - self.feedback_set_time < FinalWindow
                      THEN self.speed_feedback
                      ELSE "LIFT UP"
          /\ ret'.speed_feedback # "LIFT UP" => now' - self'.feedback_set_time < FinalWindow]_vars

\* a later call in "down" still returns the verdict of the last repetition
C18_Witness ==
    /\ ret.kind = "update"
    /\ entry = "down"
    /\ self.stage = "down"
    /\ ret.speed_feedback \in {"GOOD REP!", "BAD TIMING", "TOO FAST", "TOO SLOW", "HOLD AT TOP"}
    /\ self.feedback_set_time < now
    /\ self.good_reps + self.bad_reps >= 1

\* the call sets a warning or a final message of its own: a crossing off the
\* concentric time or a climb that lasts too long, a percentage below 90 in
\* "hold", a completed repetition
SetsMessage ==
    \/ /\ self.stage = "going_up"
       /\ IF FracGE(ret'.per, PerTop)
          THEN Abs(Elapsed - self.concentric_time) > self.time_tolerance
          ELSE Elapsed > self.concentric_time + self.time_tolerance
    \/ self.stage = "hold" /\ FracLT(ret'.per, PerTop)
    \/ self.stage = "going_down" /\ FracLE(ret'.per, PerBottom)

\* C19: a call in a moving stage without reset returns the warning it found if
\* that was stamped less than 0.5 s ago, and the default of the stage it began
\* in ("GO", "HOLD", "BACK SLOWLY") in place of any other message or older
\* warning, unless the call sets a warning or final message of its own.
C19_WarningWindow ==
    [][(Called /\ self.stage \in {"going_up", "hold", "going_down"} /\ ~ ResetNow) =>
          IF SetsMessage
          THEN ret'.speed_feedback \in
                   {"TOO FAST", "TOO SLOW", "HOLD AT TOP", "GOOD REP!", "BAD TIMING"}
          ELSE ret'.speed_feedback =
                   IF WarningActive THEN self.speed_feedback
                   ELSE CASE self.stage = "going_up" -> "GO"
                          [] self.stage = "hold" -> "HOLD"
                          [] self.stage = "going_down" -> "BACK SLOWLY"]_vars

\* "TOO FAST" from the crossing is still returned by the next call in "hold"
C19_Witness ==
    /\ ret.kind = "update"
    /\ entry = "hold"
    /\ self.stage = "hold"
    /\ ret.speed_feedback = "TOO FAST"
    /\ self.feedback_set_time < now
    /\ now - self.feedback_set_time < WarningWindow

\* C20: every call that changes the stage sets stage_start_time to the time of
\* the call, so that the timer always tells when the current stage began; this
\* includes the changes to "down" at a completed or a reset repetition.
C20_TimerFollowsStage ==
    [][(Called /\ self'.stage # self.stage) => self'.stage_start_time = now']_vars

-----------------------------------------------------------------------------
(* C21, C22: the reset rule and the stage changes of one call               *)

\* C21: a call made in "going_up" or "hold" with a percentage of at most 5
\* returns in stage "down" with "REP RESET" stamped at the time of the call
\* and both counters as they were; it gives no timing verdict and does not
\* enter "hold" or "going_down", so the flag and the stage timer stay too.
C21_LowProgressResets ==
    [][(Called /\ self.stage \in {"going_up", "hold"} /\ FracLE(ret'.per, PerBottom)) =>
          /\ self'.stage = "down"
          /\ ret'.speed_feedback = "REP RESET"
          /\ self'.speed_feedback = "REP RESET"
          /\ self'.feedback_set_time = now'
          /\ self'.good_reps = self.good_reps
          /\ self'.bad_reps = self.bad_reps
          /\ self'.rep_timing_is_good = self.rep_timing_is_good
          /\ self'.stage_start_time = self.stage_start_time]_vars

\* a call in "hold" with good form and a percentage of at most 5 has reset
\* the repetition
C21_Witness ==
    /\ ret.kind = "update"
    /\ entry = "hold"
    /\ FracLE(ret.per, PerBottom)
    /\ self.form_feedback = "GOOD"
    /\ self.stage = "down"
    /\ self.speed_feedback = "REP RESET"
    /\ self.feedback_set_time = now

\* the stage changes a call may make: the cycle and the two reset edges
StageEdges ==
    {<<"down", "going_up">>, <<"going_up", "hold">>, <<"hold", "going_down">>,
     <<"going_down", "down">>, <<"going_up", "down">>, <<"hold", "down">>}

\* C22: a call leaves the stage as it is or changes it along the cycle down,
\* going_up, hold, going_down, down or along a reset edge from going_up or
\* hold to down; a call that returns in the stage it began in has not left
\* it, so the stage timer is as it was.
C22_OnlyCycleAndResetEdges ==
    [][Called =>
          IF self'.stage = self.stage
          THEN self'.stage_start_time = self.stage_start_time
          ELSE <<self.stage, self'.stage>> \in StageEdges]_vars

-----------------------------------------------------------------------------
(* C23: counted repetitions and form                                        *)

\* C23: when a call counts a repetition, good or bad, the form was good in
\* that call and in every earlier call of the repetition that began in
\* "going_up", "hold" or "going_down"; a bad count comes with
\* rep_timing_is_good false.
C23_CountedRepsHadGoodForm ==
    [][(Called /\ (self'.good_reps # self.good_reps \/ self'.bad_reps # self.bad_reps)) =>
          /\ FormOk
          /\ ~ lapse
          /\ ~ lapse'
          /\ self'.bad_reps # self.bad_reps => ~ self'.rep_timing_is_good]_vars

\* a bad repetition has just been counted: its timing was bad, its form good
\* in every call
C23_Witness ==
    /\ ret.kind = "update"
    /\ entry = "going_down"
    /\ self.stage = "down"
    /\ self.bad_reps >= 1
    /\ self.form_feedback = "GOOD"
    /\ ~ self.rep_timing_is_good
    /\ ~ lapse
    /\ lap = 1
    /\ self.feedback_set_time = now

=============================================================================
